---------------------------- MODULE Spec2Model ----------------------------
(***************************************************************************)
(* A model of wmipp (nv2_wmi.h, main.cpp): the C++ wrapper classes over    *)
(* the WMI COM API and the command-line driver.                            *)
(*                                                                         *)
(* The wrapper's own state is modelled from the source: the members of     *)
(* ComInit, SAHandle, Object and Services, the local variables of every    *)
(* member function and the position of control inside it.  The platform    *)
(* (COM, WMI) is the environment: every platform call is a step whose      *)
(* HRESULT and out-parameters are chosen among the outcomes the platform's *)
(* documented contract allows.                                             *)
(***************************************************************************)
EXTENDS Integers, Sequences, FiniteSets, TLC

(***************************************************************************)
(* Bounds of the model.                                                    *)
(***************************************************************************)
\* longest in-parameter list handed to ExecMethod
MaxParams == 2
\* most instances an instance enumerator delivers
MaxInst == 2
\* most non-system properties of an object whose names are enumerated
MaxProps == 2
\* longest filter (in tokens) handed to GetClassNames
MaxFilter == 4
\* most properties of an out-parameter object
MaxOut == 2
\* most methods of a class
MaxMethods == 2

(***************************************************************************)
(* HRESULTs.  S_OK is the only value the wrapper's throw_if checks accept; *)
(* SUCCEEDED is the platform macro (non-negative HRESULT).                 *)
(***************************************************************************)
S_OK == "S_OK"
SUCCEEDED(hr) ==
    hr \in {"S_OK", "S_FALSE", "WBEM_S_FALSE", "WBEM_S_TIMEDOUT", "WBEM_S_NO_MORE_DATA"}
FAILED(hr) == ~SUCCEEDED(hr)
\* what an ordinary COM/WMI call may return
HRCall == {"S_OK", "E_FAIL"}
\* CoInitializeEx: first initialisation, already initialised, wrong apartment
HRCoInit == {"S_OK", "S_FALSE", "RPC_E_CHANGED_MODE"}

NULL == "NULL"

(***************************************************************************)
(* VARIANTs.  boolVal is a 16-bit VARIANT_BOOL (VARIANT_TRUE = 0xFFFF,     *)
(* VARIANT_FALSE = 0); bVal is the low byte of the same union.             *)
(***************************************************************************)
VARIANT_TRUE == 65535
VARIANT_FALSE == 0
\* a variant is [vt, ival, sval]: its type tag, its numeric payload (boolVal,
\* lVal) and its string payload (bstrVal); parray and punkVal are pointers
Variant(vt, ival, sval) == [vt |-> vt, ival |-> ival, sval |-> sval]
VtNull == Variant("VT_NULL", 0, "")
VtEmpty == Variant("VT_EMPTY", 0, "")
VtBool(b) == Variant("VT_BOOL", IF b THEN VARIANT_TRUE ELSE VARIANT_FALSE, "")
VtBstr(s) == Variant("VT_BSTR", 0, s)
VtI4(n) == Variant("VT_I4", n, "")
VtArray == Variant("VT_ARRAY", 0, "<parray>")

Digit(d) == CASE d = 0 -> "0" [] d = 1 -> "1" [] d = 2 -> "2" [] d = 3 -> "3"
              [] d = 4 -> "4" [] d = 5 -> "5" [] d = 6 -> "6" [] d = 7 -> "7"
              [] d = 8 -> "8" [] d = 9 -> "9"
RECURSIVE DecimalString(_)
DecimalString(n) == IF n < 10 THEN Digit(n) ELSE DecimalString(n \div 10) \o Digit(n % 10)

\* VariantChangeType(&v, &v, 0, VT_BSTR): the variant after the call (unchanged
\* when the platform cannot convert it) and the HRESULT
ChangeTypeBSTR(v) ==
    CASE v.vt = "VT_I4" -> [hr |-> S_OK, var |-> VtBstr(DecimalString(v.ival))]
      [] v.vt = "VT_EMPTY" -> [hr |-> S_OK, var |-> VtBstr("")]
      [] v.vt = "VT_BSTR" -> [hr |-> S_OK, var |-> v]
      [] v.vt = "VT_BOOL" -> [hr |-> S_OK, var |-> VtBstr(IF v.ival # 0 THEN "True" ELSE "False")]
      [] OTHER -> [hr |-> "DISP_E_TYPEMISMATCH", var |-> v]

(***************************************************************************)
(* IWbemClassObject.  An object is [cls, relpath, props]; props is the     *)
(* sequence of its non-system properties in enumeration order, each        *)
(* [name, var].  __CLASS and __RELPATH are its system properties.          *)
(***************************************************************************)
NullObj == [cls |-> NULL, relpath |-> NULL, props |-> <<>>]
IsNull(o) == o.cls = NULL
PropNames(o) == [i \in 1..Len(o.props) |-> o.props[i].name]
HasProp(o, name) ==
    name \in {"__CLASS", "__RELPATH"} \/ \E i \in 1..Len(o.props) : o.props[i].name = name
PropValue(o, name) ==
    CASE name = "__CLASS" -> VtBstr(o.cls)
      [] name = "__RELPATH" -> VtBstr(o.relpath)
      [] OTHER -> o.props[CHOOSE i \in 1..Len(o.props) : o.props[i].name = name].var
\* IWbemClassObject::Get: what the call may return for this object and name
HRGet(o, name) == IF HasProp(o, name) THEN HRCall ELSE {"WBEM_E_NOT_FOUND"}

\* the properties the modelled WMI classes have
Prop(name, var) == [name |-> name, var |-> var]
PropPool ==
    {Prop("DeviceID", VtBstr(s)) : s \in {"C:", "G:"}}
        \cup {Prop("Size", VtI4(42)), Prop("Compressed", VtBool(TRUE)),
              Prop("VolumeDirty", VtBool(FALSE)), Prop("VolumeName", VtNull),
              Prop("PowerManagementCapabilities", VtArray)}
\* the sequences over S of length at most n
RECURSIVE SeqsUpTo(_, _)
SeqsUpTo(S, n) ==
    IF n = 0 THEN {<<>>}
    ELSE LET shorter == SeqsUpTo(S, n - 1)
         IN  shorter \cup {Append(q, x) : q \in {r \in shorter : Len(r) = n - 1}, x \in S}
DistinctNames(ps) == \A i, j \in 1..Len(ps) : ps[i].name = ps[j].name => i = j
Instance(ps) ==
    [cls |-> "Win32_LogicalDisk", relpath |-> "Win32_LogicalDisk.DeviceID", props |-> ps]
Instances == {Instance(ps) : ps \in {q \in SeqsUpTo(PropPool, MaxProps) : DistinctNames(q)}}

(***************************************************************************)
(* State.                                                                  *)
(*   cpc      position of the caller of the wrapper (the test harness, or  *)
(*            _tmain)                                                      *)
(*   op, pc   the wrapper operation in progress and the position inside it *)
(*   outcome  how the last operation ended: "return", "throw" (a C++       *)
(*            exception left it), "fault" (it dereferenced a null or       *)
(*            mistyped pointer and the process took an access violation),  *)
(*            "terminate" (std::terminate was called)                      *)
(*   result   the value the last operation returned                        *)
(*   badhr    some platform call of the operation returned other than S_OK *)
(*   calls    the platform calls the operation has made, in order          *)
(*   misread  the operation read bstrVal of a variant that holds no string *)
(*   ci       the ComInit object: [state, ok]                              *)
(*   coInits, coUninits  successful CoInitializeEx calls, CoUninitialize   *)
(*            calls                                                        *)
(*   srv      the Services object: [state, m_pService, pLocator]; pLocator *)
(*            is the IWbemLocator local of its constructor                 *)
(*   obj      the Object an operation is called on: [m_pObj, m_pServices]  *)
(*   em       the arguments and locals of Object::ExecMethod               *)
(*   gi       those of Services::GetInstances                              *)
(*   gc       those of Services::GetClassNames                             *)
(*   gp       those of Object::GetProperties                               *)
(*   en       those of EnumNames                                           *)
(*   gm       those of Object::GetMethods                                  *)
(*   sa       the SAFEARRAYs the platform has handed out                   *)
(*   mn       the locals of _tmain                                         *)
(***************************************************************************)
VARIABLES cpc, op, pc, outcome, result, badhr, calls, misread,
          ci, coInits, coUninits, srv, obj, em, gi, gc, gp, en, gm, sa, mn

opVars == <<op, pc, outcome, result, badhr, calls, misread>>
comVars == <<ci, coInits, coUninits>>
\* the local variables of the operations in progress
locVars == <<em, gi, gc, gp, en, gm, sa, mn>>
mnOthers == <<em, gi, gc, gp, en, gm, sa>>
emOthers == <<gi, gc, gp, en, gm, sa, mn>>
giOthers == <<em, gc, gp, en, gm, sa, mn>>
gpOthers == <<em, gi, gc, gm, mn>>
gmOthers == <<em, gi, gc, gp, mn>>
gcOthers == <<em, gi, gp, en, gm, sa, mn>>
vars == <<cpc, op, pc, outcome, result, badhr, calls, misread,
          ci, coInits, coUninits, srv, obj, em, gi, gc, gp, en, gm, sa, mn>>

Object(pObj, pServices) == [m_pObj |-> pObj, m_pServices |-> pServices]
NoObject == Object(NullObj, NULL)
GiIdle == [className |-> "", left |-> <<>>, all |-> <<>>, ret |-> <<>>]
GpIdle == [psaNames |-> 0, sah |-> 0]
EnIdle ==
    [pClass |-> NullObj, psaNames |-> 0, sah |-> 0, lLower |-> 0, lUpper |-> 0, i |-> 0,
     ret |-> <<>>, retTo |-> "", exc |-> FALSE]
GcIdle == [filter |-> <<>>, query |-> <<>>, invalid |-> FALSE, left |-> <<>>, ret |-> {}]
GmIdle ==
    [left |-> <<>>, all |-> <<>>, open |-> FALSE, ends |-> 0,
     def |-> [name |-> "", ipParams |-> <<>>, opParams |-> <<>>], ret |-> <<>>]
NullInst == [null |-> TRUE, puts |-> <<>>]
NullOut == [null |-> TRUE, props |-> <<>>]
\* int ret = -1 (main.cpp:59)
RetInit == -1
MnIdle ==
    [elevated |-> FALSE, parsed |-> FALSE, help |-> FALSE, test_enumeration |-> FALSE,
     test_properties |-> FALSE, test_methods |-> FALSE, list_properties |-> FALSE,
     list_methods |-> FALSE, targetName |-> <<>>, ret |-> RetInit,
     classNames |-> <<>>, k |-> 1, obj |-> NoObject, disks |-> <<>>, d |-> 1,
     props |-> <<>>, p |-> 1, testRaised |-> FALSE, caught |-> FALSE,
     exited |-> "no", code |-> 0]
EmIdle ==
    [method |-> "", iparams |-> <<>>, oparams0 |-> {}, oparams |-> {}, pInParamsClass |-> NULL,
     pInParamsInstance |-> NullInst, i |-> 1, relPath |-> "", sent |-> NullInst,
     pOutParamsInstance |-> NullOut, ret |-> VtEmpty, enum |-> 0]

Init ==
    /\ cpc = "start"
    /\ op = "none" /\ pc = "idle" /\ outcome = "none" /\ result = NULL
    /\ badhr = FALSE /\ calls = <<>> /\ misread = FALSE
    /\ ci = [state |-> "none", ok |-> FALSE]
    /\ coInits = 0 /\ coUninits = 0
    /\ srv = [state |-> "none", m_pService |-> NULL, pLocator |-> NULL]
    /\ obj = NoObject
    /\ em = EmIdle
    /\ gi = GiIdle
    /\ gp = GpIdle /\ en = EnIdle /\ sa = <<>>
    /\ gc = GcIdle /\ gm = GmIdle
    /\ mn = MnIdle

(***************************************************************************)
(* ComInit (nv2_wmi.h:57-77).                                              *)
(***************************************************************************)
\* nv2::throw_if(result != S_OK, ...) of the constructor
ComInitThrows(hr) == hr # S_OK

\* ComInit::ComInit(): CoInitializeEx, throw unless S_OK, ok = true.  A
\* constructor that throws leaves no object: its destructor never runs.
ComInit_ctor(from, toOk, toThrow) ==
    /\ cpc = from /\ pc = "idle"
    /\ \E hr \in HRCoInit :
        /\ coInits' = IF SUCCEEDED(hr) THEN coInits + 1 ELSE coInits
        /\ badhr' = (hr # S_OK)
        /\ calls' = <<"CoInitializeEx">>
        /\ IF ComInitThrows(hr)
              THEN /\ ci' = [state |-> "ctor_threw", ok |-> FALSE]
                   /\ outcome' = "throw" /\ cpc' = toThrow
              ELSE /\ ci' = [state |-> "alive", ok |-> TRUE]
                   /\ outcome' = "return" /\ cpc' = toOk
    /\ op' = "ComInit" /\ result' = NULL /\ misread' = FALSE
    /\ UNCHANGED <<pc, coUninits, srv, obj, locVars>>

\* ComInit::~ComInit(): if (ok) { CoUninitialize(); ok = false; }
ComInit_dtor(from, to) ==
    /\ cpc = from /\ pc = "idle" /\ ci.state = "alive"
    /\ coUninits' = IF ci.ok THEN coUninits + 1 ELSE coUninits
    /\ ci' = [state |-> "destroyed", ok |-> FALSE]
    /\ cpc' = to
    /\ UNCHANGED <<opVars, coInits, srv, obj, locVars>>

(***************************************************************************)
(* Services::Services (nv2_wmi.h:424-449).  Four platform calls, each      *)
(* followed by throw_if(hResult != S_OK).  The constructor is declared     *)
(* throw(): an exception leaving it either propagates (MSVC before         *)
(* /std:c++17 treats throw() as __declspec(nothrow) and checks nothing) or *)
(* calls std::terminate (throw() is noexcept from C++17).  Neither build   *)
(* has to unwind the constructor: std::terminate may be called with the    *)
(* stack as it is, and a nothrow function may be compiled without the code *)
(* that destroys pLocator and m_pService when an exception passes.         *)
(***************************************************************************)
ServicesCalls ==
    <<"CoInitializeSecurity", "CoCreateInstance", "ConnectServer", "CoSetProxyBlanket">>
\* the calls made when the i-th is the first to return other than S_OK (5: none)
ServicesCallsMade(firstBad) ==
    SubSeq(ServicesCalls, 1, IF firstBad > 4 THEN 4 ELSE firstBad)
ThrowFromNothrow == {"throw", "terminate"}
\* the interface pointers the constructor has obtained when the i-th call is the
\* first to fail: pLocator once CoCreateInstance succeeded (line 440),
\* m_pService once ConnectServer succeeded (line 443); unwound: the CComPtrs
\* were destroyed as the exception left
ServicesAcquired(firstBad, unwound) ==
    [state |-> "ctor_threw",
     pLocator |-> IF firstBad >= 3 /\ ~unwound THEN "locator" ELSE NULL,
     m_pService |-> IF firstBad >= 4 /\ ~unwound THEN "svc" ELSE NULL]

Services_ctor(from, toOk, toThrow, toTerminate) ==
    /\ cpc = from /\ pc = "idle"
    /\ \E firstBad \in 1..5 :
        /\ calls' = ServicesCallsMade(firstBad)
        /\ badhr' = (firstBad <= 4)
        /\ IF firstBad <= 4
              THEN \E how \in ThrowFromNothrow, unwound \in BOOLEAN :
                    /\ outcome' = how
                    /\ cpc' = IF how = "throw" THEN toThrow ELSE toTerminate
                    /\ srv' = ServicesAcquired(firstBad, unwound)
              \* line 449: pLocator is released as the constructor returns
              ELSE /\ outcome' = "return" /\ cpc' = toOk
                   /\ srv' = [state |-> "alive", m_pService |-> "svc", pLocator |-> NULL]
    /\ op' = "Services" /\ result' = NULL /\ misread' = FALSE
    /\ UNCHANGED <<pc, comVars, obj, locVars>>

\* ~Services(): the CComPtr member releases the IWbemServices pointer
Services_dtor(from, to) ==
    /\ cpc = from /\ pc = "idle" /\ srv.state = "alive"
    /\ srv' = [srv EXCEPT !.state = "destroyed", !.m_pService = NULL]
    /\ cpc' = to
    /\ UNCHANGED <<opVars, comVars, obj, locVars>>

(***************************************************************************)
(* Object::GetValue (nv2_wmi.h:228-256) and Object::GetIValue (258-274).   *)
(***************************************************************************)
\* what reading bstrVal of a variant that holds no string can do: the payload
\* is a pointer to something else, read as a wide string
MisreadOutcomes == {[kind |-> "fault", val |-> ""], [kind |-> "return", val |-> "<garbage>"]}

\* lines 237-255: the string for the variant Get delivered
GetValueRender(val) ==
    IF val.vt = "VT_NULL" THEN {[kind |-> "return", val |-> "NULL", misread |-> FALSE]}
    ELSE IF val.vt = "VT_BOOL"
        THEN {[kind |-> "return", misread |-> FALSE,
               val |-> IF (val.ival % 256) # 0 THEN "true" ELSE "false"]}
    ELSE IF ~(val.vt = "VT_LPWSTR" \/ val.vt = "VT_BSTR")
        THEN LET c == ChangeTypeBSTR(val).var
             IN  IF c.vt = "VT_BSTR"
                    THEN {[kind |-> "return", val |-> c.sval, misread |-> FALSE]}
                    ELSE {[kind |-> r.kind, val |-> r.val, misread |-> TRUE] :
                            r \in MisreadOutcomes}
    ELSE {[kind |-> "return", val |-> val.sval, misread |-> FALSE]}

\* Object::GetValue on the object with m_pObj = o: the results it can have when
\* Get returns hr.  got: Get was called.
GetValue(o, property, hr) ==
    IF IsNull(o)
        THEN {[kind |-> "throw", val |-> "E_POINTER", misread |-> FALSE, got |-> FALSE]}
    ELSE IF hr # S_OK
        THEN {[kind |-> "throw", val |-> hr, misread |-> FALSE, got |-> TRUE]}
    ELSE {[kind |-> r.kind, val |-> r.val, misread |-> r.misread, got |-> TRUE] :
            r \in GetValueRender(PropValue(o, property))}

HRGetOf(o, property) == IF IsNull(o) THEN {S_OK} ELSE HRGet(o, property)

\* the wrapper call obj.GetValue(property) as one step of the caller
Object_GetValue(from, to, o, property) ==
    /\ cpc = from /\ pc = "idle"
    /\ \E hr \in HRGetOf(o.m_pObj, property) :
       \E r \in GetValue(o.m_pObj, property, hr) :
        /\ obj' = o
        /\ op' = "GetValue" /\ outcome' = r.kind /\ result' = r.val
        /\ badhr' = (r.got /\ hr # S_OK)
        /\ calls' = IF r.got THEN <<"Get:" \o property>> ELSE <<>>
        /\ misread' = r.misread
    /\ cpc' = to /\ pc' = "done"
    /\ UNCHANGED <<comVars, srv, locVars>>

\* VariantChangeType(&v, &v, 0, VT_INT)
ChangeTypeINT(v) ==
    CASE v.vt = "VT_I4" -> [hr |-> S_OK, var |-> Variant("VT_INT", v.ival, "")]
      [] v.vt = "VT_BOOL" ->
            [hr |-> S_OK, var |-> Variant("VT_INT", IF v.ival # 0 THEN -1 ELSE 0, "")]
      [] OTHER -> [hr |-> "DISP_E_TYPEMISMATCH", var |-> v]

\* Object::GetIValue: Get, ChangeType(VT_INT) unless the variant is VT_INT
\* already (its HRESULT is not looked at), return intVal.  garbage: intVal was
\* read from a variant that holds no integer.
GetIValue(o, property, hr) ==
    IF IsNull(o) THEN [kind |-> "throw", int |-> 0, garbage |-> FALSE, got |-> FALSE]
    ELSE IF hr # S_OK THEN [kind |-> "throw", int |-> 0, garbage |-> FALSE, got |-> TRUE]
    ELSE LET val == PropValue(o, property)
             c == IF val.vt # "VT_INT" THEN ChangeTypeINT(val).var ELSE val
         IN  [kind |-> "return", int |-> c.ival, garbage |-> c.vt # "VT_INT", got |-> TRUE]

\* the wrapper call obj.GetIValue(property) as one step of the caller
Object_GetIValue(from, to, o, property) ==
    /\ cpc = from /\ pc = "idle"
    /\ \E hr \in HRGetOf(o.m_pObj, property) :
        LET r == GetIValue(o.m_pObj, property, hr)
        IN  /\ obj' = o
            /\ op' = "GetIValue" /\ outcome' = r.kind /\ result' = r
            /\ badhr' = (r.got /\ (hr # S_OK \/ r.garbage))
            /\ calls' = IF r.got THEN <<"Get:" \o property>> ELSE <<>>
    /\ cpc' = to /\ pc' = "done" /\ misread' = FALSE
    /\ UNCHANGED <<comVars, srv, locVars>>

(***************************************************************************)
(* Services::GetObject (nv2_wmi.h:499-513) and Services::GetInstances      *)
(* (nv2_wmi.h:460-488).                                                    *)
(***************************************************************************)
\* Services::GetObject(lpObjectName): one platform call, throw unless S_OK
Services_GetObject(from, to, pool) ==
    /\ cpc = from /\ pc = "idle"
    /\ IF srv.m_pService = NULL
          THEN /\ outcome' = "throw" /\ result' = Object(NullObj, NULL)
               /\ badhr' = FALSE /\ calls' = <<>>
          ELSE \E hr \in HRCall, o \in pool :
                /\ calls' = <<"GetObject">>
                /\ badhr' = (hr # S_OK)
                /\ outcome' = IF hr # S_OK THEN "throw" ELSE "return"
                /\ result' = IF hr # S_OK THEN Object(NullObj, NULL)
                                           ELSE Object(o, srv.m_pService)
    /\ op' = "GetObject" /\ cpc' = to /\ pc' = "done" /\ misread' = FALSE
    /\ UNCHANGED <<comVars, srv, obj, locVars>>

\* the instances an instance enumerator may hold
DiskC == Instance(<<Prop("DeviceID", VtBstr("C:")), Prop("Size", VtI4(42))>>)
DiskG == Instance(<<Prop("DeviceID", VtBstr("G:")), Prop("PowerManagementCapabilities", VtArray)>>)
InstanceLists == SeqsUpTo({DiskC, DiskG}, MaxInst)

\* IEnumWbemClassObject::Next(lTimeout, 1, &p, &returned) on an enumerator with
\* the objects `left` still to deliver: one object with S_OK; none with
\* WBEM_S_FALSE when nothing is left; none with WBEM_S_TIMEDOUT when the time-out
\* (0: do not wait) ran out first; none with a failure
WBEM_INFINITE == -1
EnumNextOutcomes(left, lTimeout) ==
    IF left = <<>>
        THEN {[hr |-> "WBEM_S_FALSE", returned |-> 0], [hr |-> "E_FAIL", returned |-> 0]}
        ELSE {[hr |-> S_OK, returned |-> 1], [hr |-> "E_FAIL", returned |-> 0]}
                \cup (IF lTimeout # WBEM_INFINITE
                        THEN {[hr |-> "WBEM_S_TIMEDOUT", returned |-> 0]} ELSE {})

\* an operation ends: by a return of value, or by an exception, a fault or
\* std::terminate; and it makes the platform call c
OpEnd(how, value) == pc' = "done" /\ outcome' = how /\ result' = value
OpCall(c) == calls' = Append(calls, c)

\* the call srv.GetInstances(lpClassName)
GI_Call(from, to) ==
    /\ cpc = from /\ pc = "idle"
    /\ cpc' = to
    /\ gi' = [GiIdle EXCEPT !.className = "Win32_LogicalDisk"]
    /\ op' = "GetInstances" /\ pc' = "gi_entry" /\ outcome' = "none" /\ result' = <<>>
    /\ badhr' = FALSE /\ calls' = <<>> /\ misread' = FALSE
    /\ UNCHANGED <<comVars, srv, obj, giOthers>>

\* lines 466-470: the null check, CreateInstanceEnum, throw unless S_OK
GI_CreateInstanceEnum ==
    /\ pc = "gi_entry"
    /\ IF srv.m_pService = NULL
          THEN OpEnd("throw", <<>>) /\ UNCHANGED <<badhr, calls, gi>>
          ELSE \E hr \in HRCall :
                /\ calls' = Append(calls, "CreateInstanceEnum")
                /\ badhr' = (badhr \/ hr # S_OK)
                /\ IF hr # S_OK
                      THEN OpEnd("throw", <<>>) /\ UNCHANGED gi
                      ELSE /\ \E insts \in InstanceLists :
                                gi' = [gi EXCEPT !.left = insts, !.all = insts]
                           /\ pc' = "gi_Next" /\ UNCHANGED <<outcome, result>>
    /\ UNCHANGED <<cpc, op, misread, comVars, srv, obj, giOthers>>

\* lines 474-487: one pass of the loop: pEnum->Next(0, 1, &pObject, &returned);
\* leave the loop when nothing was returned, else throw unless S_OK, else
\* append Object(pObject, m_pService)
GI_Next ==
    /\ pc = "gi_Next"
    /\ \E n \in EnumNextOutcomes(gi.left, 0) :
        /\ calls' = Append(calls, "Next")
        /\ badhr' = (badhr \/ n.hr # S_OK)
        /\ IF n.returned = 0
              THEN OpEnd("return", gi.ret) /\ UNCHANGED gi
           ELSE IF n.hr # S_OK
              THEN OpEnd("throw", <<>>) /\ UNCHANGED gi
           ELSE /\ gi' = [gi EXCEPT !.left = Tail(@),
                                    !.ret = Append(@, Object(Head(gi.left), srv.m_pService))]
                /\ UNCHANGED <<pc, outcome, result>>
    /\ UNCHANGED <<cpc, op, misread, comVars, srv, obj, giOthers>>

GetInstances == GI_CreateInstanceEnum \/ GI_Next

(***************************************************************************)
(* SAHandle (nv2_wmi.h:81-97), EnumNames (113-151) and                     *)
(* Object::GetProperties (207-225).  sa lists the SAFEARRAYs that GetNames *)
(* has allocated: [by, names, destroys, exited]: the function that         *)
(* obtained it, its elements, the SafeArrayDestroy calls made on it, and   *)
(* whether that function has been left (by return or by exception).  A     *)
(* SAFEARRAY pointer is an index into sa; 0 is the null pointer.           *)
(***************************************************************************)
\* a constructor that leaves m_psa null: the handle owns nothing
SAHandle_ctor_OwnsNothing(psa) == 0
\* explicit SAHandle(SAFEARRAY* psa) : m_psa(psa)
SAHandle_ctor(psa) == psa

\* ~SAHandle(): if (m_psa) SafeArrayDestroy(m_psa): the arrays after the call
SAHandle_dtor(m_psa, arrays) ==
    IF m_psa # 0 THEN [arrays EXCEPT ![m_psa].destroys = @ + 1] ELSE arrays
\* nv2::throw_if(hr != S_OK, ...) inside the destructor, which is noexcept:
\* std::terminate
SAHandle_dtor_terminates(m_psa, hr) == m_psa # 0 /\ hr # S_OK

NewArray(by, names) == [by |-> by, names |-> names, destroys |-> 0, exited |-> FALSE]
MarkExited(arrays, psa) == IF psa # 0 THEN [arrays EXCEPT ![psa].exited = TRUE] ELSE arrays

\* where an exception that leaves EnumNames lands in its caller
ExcTarget(retTo) == IF retTo = "gp_afterEnum" THEN "gp_unwind" ELSE "gm_unwind"

\* a call EnumNames(pClass) made at a point whose continuation is retTo
EnumNamesFrame(pClass, retTo) == [EnIdle EXCEPT !.pClass = pClass, !.retTo = retTo]

\* lines 119-128: pClass->GetNames, throw unless S_OK, SAHandle sah(psaNames)
EN_GetNames ==
    /\ pc = "en_GetNames"
    /\ \E hr \in HRCall :
        /\ OpCall("GetNames")
        /\ badhr' = (badhr \/ hr # S_OK)
        /\ IF hr # S_OK
              THEN pc' = ExcTarget(en.retTo) /\ UNCHANGED <<en, sa>>
              ELSE /\ sa' = Append(sa, NewArray("EnumNames", PropNames(en.pClass)))
                   /\ en' = [en EXCEPT !.psaNames = Len(sa) + 1,
                                       !.sah = SAHandle_ctor(Len(sa) + 1)]
                   /\ pc' = "en_GetLBound"
    /\ UNCHANGED <<cpc, op, outcome, result, misread, comVars, srv, obj, gp, gpOthers>>

\* lines 131-133: SafeArrayGetLBound, throw unless S_OK
EN_GetLBound ==
    /\ pc = "en_GetLBound"
    /\ \E hr \in HRCall :
        /\ OpCall("SafeArrayGetLBound")
        /\ badhr' = (badhr \/ hr # S_OK)
        /\ IF hr # S_OK
              THEN pc' = "en_exit" /\ en' = [en EXCEPT !.exc = TRUE]
              ELSE pc' = "en_GetUBound" /\ en' = [en EXCEPT !.lLower = 0]
    /\ UNCHANGED <<cpc, op, outcome, result, misread, comVars, srv, obj, gp, sa, gpOthers>>

\* lines 135-139: SafeArrayGetUBound, throw unless S_OK; i = lLower
EN_GetUBound ==
    /\ pc = "en_GetUBound"
    /\ \E hr \in HRCall :
        /\ OpCall("SafeArrayGetUBound")
        /\ badhr' = (badhr \/ hr # S_OK)
        /\ IF hr # S_OK
              THEN pc' = "en_exit" /\ en' = [en EXCEPT !.exc = TRUE]
              ELSE /\ pc' = "en_loop"
                   /\ en' = [en EXCEPT !.lUpper = Len(sa[en.psaNames].names) - 1,
                                       !.i = en.lLower]
    /\ UNCHANGED <<cpc, op, outcome, result, misread, comVars, srv, obj, gp, sa, gpOthers>>

\* lines 139-148: one pass of the loop: SafeArrayGetElement, throw unless S_OK,
\* push the name
EN_GetElement ==
    /\ pc = "en_loop" /\ en.i <= en.lUpper
    /\ \E hr \in HRCall :
        /\ OpCall("SafeArrayGetElement")
        /\ badhr' = (badhr \/ hr # S_OK)
        /\ IF hr # S_OK
              THEN pc' = "en_exit" /\ en' = [en EXCEPT !.exc = TRUE]
              ELSE /\ en' = [en EXCEPT !.i = @ + 1,
                                !.ret = Append(@, sa[en.psaNames].names[en.i - en.lLower + 1])]
                   /\ UNCHANGED pc
    /\ UNCHANGED <<cpc, op, outcome, result, misread, comVars, srv, obj, gp, sa, gpOthers>>

\* line 150: the loop is over: return ret
EN_Return ==
    /\ pc = "en_loop" /\ en.i > en.lUpper
    /\ pc' = "en_exit"
    /\ UNCHANGED <<cpc, op, outcome, result, badhr, calls, misread, comVars, srv, obj,
                   gp, en, sa, gpOthers>>

\* EnumNames is left, by return or by exception: sah is destroyed
EN_Exit ==
    /\ pc = "en_exit"
    /\ \E hr \in HRCall :
        /\ IF en.sah # 0
              THEN OpCall("SafeArrayDestroy") /\ badhr' = (badhr \/ hr # S_OK)
              ELSE UNCHANGED <<calls, badhr>>
        /\ IF SAHandle_dtor_terminates(en.sah, hr)
              THEN /\ OpEnd("terminate", <<>>)
                   /\ sa' = SAHandle_dtor(en.sah, sa)
              ELSE /\ sa' = MarkExited(SAHandle_dtor(en.sah, sa), en.psaNames)
                   /\ pc' = IF en.exc THEN ExcTarget(en.retTo) ELSE en.retTo
                   /\ UNCHANGED <<outcome, result>>
    /\ UNCHANGED <<cpc, op, misread, comVars, srv, obj, gp, en, gpOthers>>

EnumNames ==
    EN_GetNames \/ EN_GetLBound \/ EN_GetUBound \/ EN_GetElement \/ EN_Return \/ EN_Exit

\* the call obj.GetProperties()
GP_Call(from, to, o) ==
    /\ cpc = from /\ pc = "idle"
    /\ cpc' = to
    /\ obj' = o
    /\ gp' = GpIdle /\ en' = EnIdle /\ sa' = <<>>
    /\ op' = "GetProperties" /\ pc' = "gp_GetNames" /\ outcome' = "none" /\ result' = <<>>
    /\ badhr' = FALSE /\ calls' = <<>> /\ misread' = FALSE
    /\ UNCHANGED <<comVars, srv, gpOthers>>

\* lines 212-222: m_pObj->GetNames (through m_pObj as it is), throw unless S_OK,
\* SAHandle sah(psaNames), then the call EnumNames(m_pObj)
GP_GetNames ==
    /\ pc = "gp_GetNames"
    /\ IF IsNull(obj.m_pObj)
          THEN OpEnd("fault", <<>>) /\ UNCHANGED <<badhr, calls, gp, en, sa>>
          ELSE \E hr \in HRCall :
                /\ OpCall("GetNames")
                /\ badhr' = (badhr \/ hr # S_OK)
                /\ IF hr # S_OK
                      THEN OpEnd("throw", <<>>) /\ UNCHANGED <<gp, en, sa>>
                      ELSE /\ sa' = Append(sa, NewArray("GetProperties", PropNames(obj.m_pObj)))
                           /\ gp' = [psaNames |-> Len(sa) + 1,
                                     sah |-> SAHandle_ctor(Len(sa) + 1)]
                           /\ en' = EnumNamesFrame(obj.m_pObj, "gp_afterEnum")
                           /\ pc' = "en_GetNames"
                           /\ UNCHANGED <<outcome, result>>
    /\ UNCHANGED <<cpc, op, misread, comVars, srv, obj, gpOthers>>

\* lines 222-225: EnumNames has returned (ret = its result; return ret) or has
\* thrown: GetProperties is left and its sah is destroyed
GP_Exit ==
    /\ pc \in {"gp_afterEnum", "gp_unwind"}
    /\ \E hr \in HRCall :
        /\ IF gp.sah # 0
              THEN OpCall("SafeArrayDestroy") /\ badhr' = (badhr \/ hr # S_OK)
              ELSE UNCHANGED <<calls, badhr>>
        /\ IF SAHandle_dtor_terminates(gp.sah, hr)
              THEN /\ OpEnd("terminate", <<>>)
                   /\ sa' = SAHandle_dtor(gp.sah, sa)
              ELSE /\ sa' = MarkExited(SAHandle_dtor(gp.sah, sa), gp.psaNames)
                   /\ IF pc = "gp_afterEnum" THEN OpEnd("return", en.ret)
                                             ELSE OpEnd("throw", <<>>)
    /\ UNCHANGED <<cpc, op, misread, comVars, srv, obj, gp, en, gpOthers>>

GetProperties == GP_GetNames \/ GP_Exit

(***************************************************************************)
(* Object::ExecMethod (nv2_wmi.h:334-410).  One step per platform call.    *)
(***************************************************************************)
\* the methods of the modelled class and the names of their input parameters;
\* IWbemClassObject::GetMethod yields no in-signature object for a method that
\* declares no input parameters
MethodNames == {"chkdsk", "Reset"}
InSignature(method) ==
    IF method = "chkdsk" THEN <<"FixErrors", "OKToRunAtBootUp">> ELSE <<>>
HRGetMethod(method) == IF method \in MethodNames THEN HRCall ELSE {"WBEM_E_NOT_FOUND"}
GetMethodInSignature(method, hr) ==
    IF hr = S_OK /\ InSignature(method) # <<>> THEN "InParams" ELSE NULL

\* the in-parameter lists a caller may pass: (name, value) pairs; the values
\* play no part in the wrapper's control flow and are left out
ParamNames == {"FixErrors", "OKToRunAtBootUp"}
ParamLists == SeqsUpTo(ParamNames, MaxParams)

\* the out-parameter objects a method call may yield
OutPool ==
    {Prop("ReturnValue", VtI4(7)), Prop("Status", VtBstr("x")), Prop("Owner", VtBstr("C:"))}
OutObjects ==
    {[null |-> FALSE, props |-> ps] :
        ps \in {q \in SeqsUpTo(OutPool, MaxOut) : DistinctNames(q)}}

\* oparams is a std::map, modelled as a set of [name, var] with distinct names
MapPut(m, name, var) == {e \in m : e.name # name} \cup {Prop(name, var)}
MapKeys(m) == {e.name : e \in m}


\* an off-by-one in the loop's bound: the last pair is never Put
PutLoopDone_SkipsLast(i, n) == i >= n
\* lines 356-364: the Put loop runs while a pair is left
PutLoopDone(i, n) == i > n

\* the call obj.ExecMethod(method, iparams, oparams)
EM_Call(from, to, o, method, iparams, oparams) ==
    /\ cpc = from /\ pc = "idle"
    /\ cpc' = to
    /\ obj' = o
    /\ em' = [EmIdle EXCEPT !.method = method, !.iparams = iparams, !.oparams0 = oparams,
                               !.oparams = oparams]
    /\ op' = "ExecMethod" /\ pc' = "em_entry" /\ outcome' = "none" /\ result' = VtEmpty
    /\ badhr' = FALSE /\ calls' = <<>> /\ misread' = FALSE
    /\ UNCHANGED <<comVars, srv, emOthers>>

\* lines 339-343: the two null checks, then GetValue(L"__CLASS")
EM_GetClass ==
    /\ pc = "em_entry"
    /\ IF obj.m_pServices = NULL \/ IsNull(obj.m_pObj)
          THEN OpEnd("throw", VtEmpty) /\ UNCHANGED <<badhr, calls, misread>>
          ELSE \E hr \in HRGet(obj.m_pObj, "__CLASS") :
               \E r \in GetValue(obj.m_pObj, "__CLASS", hr) :
                /\ OpCall("Get:__CLASS")
                /\ badhr' = (badhr \/ hr # S_OK)
                /\ misread' = (misread \/ r.misread)
                /\ IF r.kind = "return"
                      THEN pc' = "em_GetObject" /\ UNCHANGED <<outcome, result>>
                      ELSE OpEnd(r.kind, VtEmpty)
    /\ UNCHANGED <<cpc, op, comVars, srv, obj, em, emOthers>>

\* lines 344-345: m_pServices->GetObject(className), throw unless S_OK
EM_GetObject ==
    /\ pc = "em_GetObject"
    /\ \E hr \in HRCall :
        /\ OpCall("GetObject")
        /\ badhr' = (badhr \/ hr # S_OK)
        /\ IF hr # S_OK
              THEN OpEnd("throw", VtEmpty)
              ELSE pc' = "em_GetMethod" /\ UNCHANGED <<outcome, result>>
    /\ UNCHANGED <<cpc, op, misread, comVars, srv, obj, em, emOthers>>

\* lines 347-348: pClassDefinition->GetMethod; the HRESULT is not looked at
EM_GetMethod ==
    /\ pc = "em_GetMethod"
    /\ \E hr \in HRGetMethod(em.method) :
        /\ OpCall("GetMethod")
        /\ badhr' = (badhr \/ hr # S_OK)
        /\ em' = [em EXCEPT !.pInParamsClass = GetMethodInSignature(em.method, hr)]
    /\ pc' = "em_SpawnInstance"
    /\ UNCHANGED <<cpc, op, outcome, result, misread, comVars, srv, obj, emOthers>>

\* lines 351-354: pInParamsClass->SpawnInstance, through the pointer as it is
EM_SpawnInstance ==
    /\ pc = "em_SpawnInstance"
    /\ IF em.pInParamsClass = NULL
          THEN OpEnd("fault", VtEmpty) /\ UNCHANGED <<badhr, calls, em>>
          ELSE \E hr \in HRCall :
                /\ OpCall("SpawnInstance")
                /\ badhr' = (badhr \/ hr # S_OK)
                /\ em' = [em EXCEPT !.pInParamsInstance =
                            IF hr = S_OK THEN [null |-> FALSE, puts |-> <<>>] ELSE NullInst]
                /\ pc' = "em_Put" /\ UNCHANGED <<outcome, result>>
    /\ UNCHANGED <<cpc, op, misread, comVars, srv, obj, emOthers>>

\* lines 356-364: one pass of the loop: pInParamsInstance->Put(name, ...)
EM_Put ==
    /\ pc = "em_Put" /\ ~PutLoopDone(em.i, Len(em.iparams))
    /\ IF em.pInParamsInstance.null
          THEN OpEnd("fault", VtEmpty) /\ UNCHANGED <<badhr, calls, em>>
          ELSE \E hr \in HRCall :
                /\ OpCall("Put:" \o em.iparams[em.i])
                /\ badhr' = (badhr \/ hr # S_OK)
                /\ em' = [em EXCEPT !.i = em.i + 1,
                            !.pInParamsInstance.puts =
                                IF hr = S_OK THEN Append(@, em.iparams[em.i]) ELSE @]
                /\ UNCHANGED <<pc, outcome, result>>
    /\ UNCHANGED <<cpc, op, misread, comVars, srv, obj, emOthers>>

\* line 372: GetValue(L"__RELPATH") once the loop is over
EM_GetRelPath ==
    /\ pc = "em_Put" /\ PutLoopDone(em.i, Len(em.iparams))
    /\ \E hr \in HRGet(obj.m_pObj, "__RELPATH") :
       \E r \in GetValue(obj.m_pObj, "__RELPATH", hr) :
        /\ OpCall("Get:__RELPATH")
        /\ badhr' = (badhr \/ hr # S_OK)
        /\ misread' = (misread \/ r.misread)
        /\ IF r.kind = "return"
              THEN /\ pc' = "em_ExecMethod" /\ em' = [em EXCEPT !.relPath = r.val]
                   /\ UNCHANGED <<outcome, result>>
              ELSE OpEnd(r.kind, VtEmpty) /\ UNCHANGED em
    /\ UNCHANGED <<cpc, op, comVars, srv, obj, emOthers>>

\* lines 373-380: m_pServices->ExecMethod(relPath, method, ..., pInParamsInstance,
\* &pOutParamsInstance, NULL); the HRESULT is not looked at
EM_ExecMethod ==
    /\ pc = "em_ExecMethod"
    /\ \E hr \in HRCall :
       \E out \in IF hr = S_OK THEN OutObjects \cup {NullOut} ELSE {NullOut} :
        /\ OpCall("ExecMethod")
        /\ badhr' = (badhr \/ hr # S_OK)
        /\ em' = [em EXCEPT !.sent = em.pInParamsInstance, !.pOutParamsInstance = out]
    /\ pc' = "em_out"
    /\ UNCHANGED <<cpc, op, outcome, result, misread, comVars, srv, obj, emOthers>>

\* lines 382-384 and 409: no out-parameter object: return the empty variant
EM_NoOut ==
    /\ pc = "em_out" /\ em.pOutParamsInstance.null
    /\ OpEnd("return", em.ret)
    /\ UNCHANGED <<cpc, op, badhr, calls, misread, comVars, srv, obj, em, emOthers>>

\* lines 387-388: pOutParamsInstance->Get(L"ReturnValue", 0, &ret, ...)
EM_GetReturnValue ==
    /\ pc = "em_out" /\ ~em.pOutParamsInstance.null
    /\ \E hr \in HRGet(em.pOutParamsInstance, "ReturnValue") :
        /\ OpCall("Get:ReturnValue")
        /\ badhr' = (badhr \/ hr # S_OK)
        /\ em' = [em EXCEPT !.ret =
                    IF hr = S_OK THEN PropValue(em.pOutParamsInstance, "ReturnValue") ELSE @]
    /\ pc' = "em_BeginEnumeration"
    /\ UNCHANGED <<cpc, op, outcome, result, misread, comVars, srv, obj, emOthers>>

\* lines 390-391: BeginEnumeration(WBEM_FLAG_NONSYSTEM_ONLY).  enum is the
\* enumeration's position in the object: 0 when none has been started
EM_BeginEnumeration ==
    /\ pc = "em_BeginEnumeration"
    /\ \E hr \in HRCall :
        /\ OpCall("BeginEnumeration")
        /\ badhr' = (badhr \/ hr # S_OK)
        /\ em' = [em EXCEPT !.enum = IF hr = S_OK THEN 1 ELSE 0]
    /\ pc' = "em_Next"
    /\ UNCHANGED <<cpc, op, outcome, result, misread, comVars, srv, obj, emOthers>>

\* IWbemClassObject::Next: the property at the enumeration's position, or
\* WBEM_S_NO_MORE_DATA past the last, or a failure (always, when no
\* enumeration was started); a call that yields no property leaves name null
NextOutcomes(o, pos) ==
    IF pos = 0 THEN {[hr |-> "WBEM_E_UNEXPECTED", name |-> NULL, var |-> VtEmpty]}
    ELSE IF pos > Len(o.props)
        THEN {[hr |-> "WBEM_S_NO_MORE_DATA", name |-> NULL, var |-> VtEmpty]}
    ELSE {[hr |-> S_OK, name |-> o.props[pos].name, var |-> o.props[pos].var],
          [hr |-> "E_FAIL", name |-> NULL, var |-> VtEmpty]}

\* lines 392-404: one pass of the drain loop
EM_Next ==
    /\ pc = "em_Next"
    /\ \E n \in NextOutcomes(em.pOutParamsInstance, em.enum) :
        /\ OpCall("Next")
        /\ badhr' = (badhr \/ n.hr # S_OK)
        /\ IF n.name = NULL
              THEN pc' = "em_EndEnumeration" /\ UNCHANGED em
           ELSE IF n.name = "ReturnValue"
              THEN pc' = "em_Next" /\ em' = [em EXCEPT !.enum = @ + 1]
           ELSE /\ pc' = "em_Next"
                /\ em' = [em EXCEPT !.enum = @ + 1,
                                    !.oparams = MapPut(@, n.name, n.var)]
    /\ UNCHANGED <<cpc, op, outcome, result, misread, comVars, srv, obj, emOthers>>

\* lines 405-409: EndEnumeration, return ret
EM_EndEnumeration ==
    /\ pc = "em_EndEnumeration"
    /\ \E hr \in HRCall :
        /\ OpCall("EndEnumeration")
        /\ badhr' = (badhr \/ hr # S_OK)
    /\ OpEnd("return", em.ret)
    /\ UNCHANGED <<cpc, op, misread, comVars, srv, obj, em, emOthers>>

ExecMethod ==
    \/ EM_GetClass \/ EM_GetObject \/ EM_GetMethod \/ EM_SpawnInstance \/ EM_Put
    \/ EM_GetRelPath \/ EM_ExecMethod \/ EM_NoOut \/ EM_GetReturnValue
    \/ EM_BeginEnumeration \/ EM_Next \/ EM_EndEnumeration

(***************************************************************************)
(* Object::GetMethods (nv2_wmi.h:277-321).                                 *)
(***************************************************************************)
\* the in- and out-signature objects NextMethod yields for a method: an
\* object whose non-system properties are the parameters, or none
Signature(names) ==
    [cls |-> "__PARAMETERS", relpath |-> "", props |-> [k \in 1..Len(names) |-> Prop(names[k], VtNull)]]
InSignatureObject(method) ==
    IF InSignature(method) = <<>> THEN NullObj ELSE Signature(InSignature(method))
OutSignatureObject(method) == Signature(<<"ReturnValue">>)
\* the methods a class definition may declare, in enumeration order
MethodLists ==
    {q \in SeqsUpTo(MethodNames, MaxMethods) : \A i, j \in 1..Len(q) : q[i] = q[j] => i = j}

\* IWbemClassObject::NextMethod on an enumeration with `left` still to come
NextMethodOutcomes(left) ==
    IF left = <<>> THEN {[hr |-> "WBEM_S_NO_MORE_DATA", name |-> NULL]}
    ELSE {[hr |-> S_OK, name |-> Head(left)], [hr |-> "E_FAIL", name |-> NULL]}

\* the call obj.GetMethods()
GM_Call(from, to, o) ==
    /\ cpc = from /\ pc = "idle"
    /\ cpc' = to
    /\ obj' = o
    /\ gm' = GmIdle /\ en' = EnIdle /\ sa' = <<>>
    /\ op' = "GetMethods" /\ pc' = "gm_entry" /\ outcome' = "none" /\ result' = <<>>
    /\ badhr' = FALSE /\ calls' = <<>> /\ misread' = FALSE
    /\ UNCHANGED <<comVars, srv, gp, gmOthers>>

\* line 284: GetValue(L"__CLASS")
GM_GetClass ==
    /\ pc = "gm_entry"
    /\ \E hr \in HRGetOf(obj.m_pObj, "__CLASS") :
       \E r \in GetValue(obj.m_pObj, "__CLASS", hr) :
        /\ IF r.got THEN OpCall("Get:__CLASS") ELSE UNCHANGED calls
        /\ badhr' = (badhr \/ (r.got /\ hr # S_OK))
        /\ IF r.kind = "return"
              THEN pc' = "gm_GetObject" /\ UNCHANGED <<outcome, result>>
              ELSE OpEnd(r.kind, <<>>)
    /\ UNCHANGED <<cpc, op, misread, comVars, srv, obj, gm, gp, en, sa, gmOthers>>

\* lines 285-286: m_pServices->GetObject (through m_pServices as it is), throw
\* unless S_OK
GM_GetObject ==
    /\ pc = "gm_GetObject"
    /\ IF obj.m_pServices = NULL
          THEN OpEnd("fault", <<>>) /\ UNCHANGED <<badhr, calls, gm>>
          ELSE \E hr \in HRCall :
                /\ OpCall("GetObject")
                /\ badhr' = (badhr \/ hr # S_OK)
                /\ IF hr # S_OK
                      THEN OpEnd("throw", <<>>) /\ UNCHANGED gm
                      ELSE /\ \E ms \in MethodLists : gm' = [gm EXCEPT !.left = ms, !.all = ms]
                           /\ pc' = "gm_Begin" /\ UNCHANGED <<outcome, result>>
    /\ UNCHANGED <<cpc, op, misread, comVars, srv, obj, gp, en, sa, gmOthers>>

\* lines 288-289, 316-320: BeginMethodEnumeration; when it fails, return the
\* empty list
GM_BeginMethodEnumeration ==
    /\ pc = "gm_Begin"
    /\ \E hr \in HRCall :
        /\ OpCall("BeginMethodEnumeration")
        /\ badhr' = (badhr \/ hr # S_OK)
        /\ IF SUCCEEDED(hr)
              THEN /\ pc' = "gm_NextMethod" /\ gm' = [gm EXCEPT !.open = TRUE]
                   /\ UNCHANGED <<outcome, result>>
              ELSE OpEnd("return", gm.ret) /\ UNCHANGED gm
    /\ UNCHANGED <<cpc, op, misread, comVars, srv, obj, gp, en, sa, gmOthers>>

\* lines 309-312: the rest of a pass of the loop once def.ipParams is known, in
\* the frame g: EnumNames(ppOutSignature) when there is one, ret.push_back(def)
GmOutSignature(g, def) ==
    IF ~IsNull(OutSignatureObject(def.name))
        THEN /\ gm' = [g EXCEPT !.def = def]
             /\ en' = EnumNamesFrame(OutSignatureObject(def.name), "gm_afterOut")
             /\ pc' = "en_GetNames"
        ELSE /\ gm' = [g EXCEPT !.def = def, !.ret = Append(@, def)]
             /\ pc' = "gm_NextMethod" /\ UNCHANGED en

\* lines 294-308: one pass of the loop up to the first EnumNames call
GM_NextMethod ==
    /\ pc = "gm_NextMethod"
    /\ \E n \in NextMethodOutcomes(gm.left) :
        /\ OpCall("NextMethod")
        /\ badhr' = (badhr \/ n.hr # S_OK)
        /\ IF FAILED(n.hr) \/ n.name = NULL
              THEN pc' = "gm_End" /\ UNCHANGED <<gm, en>>
           ELSE LET def == [name |-> n.name, ipParams |-> <<>>, opParams |-> <<>>]
                IN  IF ~IsNull(InSignatureObject(n.name))
                       THEN /\ gm' = [gm EXCEPT !.left = Tail(@), !.def = def]
                            /\ en' = EnumNamesFrame(InSignatureObject(n.name), "gm_afterIn")
                            /\ pc' = "en_GetNames"
                       ELSE GmOutSignature([gm EXCEPT !.left = Tail(@)], def)
    /\ UNCHANGED <<cpc, op, outcome, result, misread, comVars, srv, obj, gp, sa, gmOthers>>

\* lines 308-312: EnumNames(ppInSignature) has returned
GM_AfterIn ==
    /\ pc = "gm_afterIn"
    /\ GmOutSignature(gm, [gm.def EXCEPT !.ipParams = en.ret])
    /\ UNCHANGED <<cpc, op, outcome, result, badhr, calls, misread, comVars, srv, obj,
                   gp, sa, gmOthers>>

\* lines 310-312: EnumNames(ppOutSignature) has returned: ret.push_back(def)
GM_AfterOut ==
    /\ pc = "gm_afterOut"
    /\ gm' = [gm EXCEPT !.def.opParams = en.ret,
                        !.ret = Append(@, [gm.def EXCEPT !.opParams = en.ret])]
    /\ pc' = "gm_NextMethod"
    /\ UNCHANGED <<cpc, op, outcome, result, badhr, calls, misread, comVars, srv, obj,
                   gp, en, sa, gmOthers>>

\* lines 314, 320: EndMethodEnumeration, return ret
GM_EndMethodEnumeration ==
    /\ pc = "gm_End"
    /\ \E hr \in HRCall :
        /\ OpCall("EndMethodEnumeration")
        /\ badhr' = (badhr \/ hr # S_OK)
    /\ gm' = [gm EXCEPT !.ends = @ + 1, !.open = FALSE]
    /\ OpEnd("return", gm.ret)
    /\ UNCHANGED <<cpc, op, misread, comVars, srv, obj, gp, en, sa, gmOthers>>

\* an exception thrown by EnumNames inside the loop leaves GetMethods
GM_Unwind ==
    /\ pc = "gm_unwind"
    /\ OpEnd("throw", <<>>)
    /\ UNCHANGED <<cpc, op, badhr, calls, misread, comVars, srv, obj, gm, gp, en, sa, gmOthers>>

GetMethods ==
    \/ GM_GetClass \/ GM_GetObject \/ GM_BeginMethodEnumeration \/ GM_NextMethod
    \/ GM_AfterIn \/ GM_AfterOut \/ GM_EndMethodEnumeration \/ GM_Unwind

(***************************************************************************)
(* Services::GetClassNames (nv2_wmi.h:526-570).  Strings that matter to    *)
(* the query are sequences of lexical pieces: a class name is a sequence   *)
(* of letters, a filter a sequence of letters, '%', single quotes and the  *)
(* text " OR __CLASS LIKE ".                                               *)
(***************************************************************************)
OrLike == " OR __CLASS LIKE "
FilterTokens == {"a", "%", "'", OrLike}
Filters == SeqsUpTo(FilterTokens, MaxFilter)
\* the classes of the namespace, in the order an enumerator delivers them
NamespaceClasses == << <<"a">>, <<"a", "b">>, <<"b">> >>

\* lines 530-536: the query text
BuildQuery(filter) ==
    IF filter # <<>>
        THEN <<"SELECT * FROM meta_class", " where __CLASS LIKE ", "'">> \o filter \o <<"'">>
        ELSE <<"SELECT * FROM meta_class">>

\* WQL's LIKE: '%' stands for any run of characters
RECURSIVE Like(_, _)
Like(pat, name) ==
    IF pat = <<>> THEN name = <<>>
    ELSE IF Head(pat) = "%"
        THEN Like(Tail(pat), name) \/ (name # <<>> /\ Like(pat, Tail(name)))
    ELSE name # <<>> /\ Head(name) = Head(pat) /\ Like(Tail(pat), Tail(name))

\* WQL's reading of a WHERE clause "__CLASS LIKE <literal> { OR __CLASS LIKE
\* <literal> }" from its first literal on: a literal runs from a quote to the
\* next quote.  [ok, pats]: well-formed, and the patterns.
RECURSIVE ParseLiterals(_)
ParseLiterals(toks) ==
    IF toks = <<>> \/ Head(toks) # "'" THEN [ok |-> FALSE, pats |-> {}]
    ELSE LET closing == {j \in 2..Len(toks) : toks[j] = "'"}
         IN  IF closing = {} THEN [ok |-> FALSE, pats |-> {}]
             ELSE LET j == CHOOSE x \in closing : \A y \in closing : x <= y
                      pat == SubSeq(toks, 2, j - 1)
                      rest == SubSeq(toks, j + 1, Len(toks))
                  IN  IF rest = <<>> THEN [ok |-> TRUE, pats |-> {pat}]
                      ELSE IF Head(rest) # OrLike THEN [ok |-> FALSE, pats |-> {}]
                      ELSE LET more == ParseLiterals(Tail(rest))
                           IN  [ok |-> more.ok, pats |-> {pat} \cup more.pats]
\* the query as WQL reads it: every class, or those matching a pattern
ParseQuery(query) ==
    IF query = <<"SELECT * FROM meta_class">> THEN [ok |-> TRUE, pats |-> {<<"%">>}]
    ELSE IF Len(query) >= 2 /\ query[1] = "SELECT * FROM meta_class"
            /\ query[2] = " where __CLASS LIKE "
        THEN ParseLiterals(SubSeq(query, 3, Len(query)))
    ELSE [ok |-> FALSE, pats |-> {}]
\* the classes a well-formed query selects, in enumeration order
RECURSIVE Select(_, _)
Select(classes, pats) ==
    IF classes = <<>> THEN <<>>
    ELSE IF \E pat \in pats : Like(pat, Head(classes))
        THEN <<Head(classes)>> \o Select(Tail(classes), pats)
    ELSE Select(Tail(classes), pats)

\* the call srv.GetClassNames(filter)
GC_Call(from, to, filter) ==
    /\ cpc = from /\ pc = "idle"
    /\ cpc' = to
    /\ gc' = [GcIdle EXCEPT !.filter = filter]
    /\ op' = "GetClassNames" /\ pc' = "gc_entry" /\ outcome' = "none" /\ result' = {}
    /\ badhr' = FALSE /\ calls' = <<>> /\ misread' = FALSE
    /\ UNCHANGED <<comVars, srv, obj, gcOthers>>

\* lines 530-544: build the query, m_pService->ExecQuery (through m_pService
\* as it is: there is no null check) with WBEM_FLAG_FORWARD_ONLY |
\* WBEM_FLAG_RETURN_IMMEDIATELY, throw unless S_OK.  A semisynchronous call may
\* report a malformed query at once or at the first Next.
GC_ExecQuery ==
    /\ pc = "gc_entry"
    /\ LET query == BuildQuery(gc.filter)
           parsed == ParseQuery(query)
       IN  IF srv.m_pService = NULL
              THEN /\ OpEnd("fault", {}) /\ gc' = [gc EXCEPT !.query = query]
                   /\ UNCHANGED <<badhr, calls>>
           ELSE \E hr \in IF parsed.ok THEN HRCall ELSE {S_OK, "WBEM_E_INVALID_QUERY"} :
            /\ OpCall("ExecQuery")
            /\ badhr' = (badhr \/ hr # S_OK)
            /\ IF hr # S_OK
                  THEN OpEnd("throw", {}) /\ gc' = [gc EXCEPT !.query = query]
                  ELSE /\ gc' = [gc EXCEPT !.query = query, !.invalid = ~parsed.ok,
                                    !.left = Select(NamespaceClasses, parsed.pats)]
                       /\ pc' = "gc_Next" /\ UNCHANGED <<outcome, result>>
    /\ UNCHANGED <<cpc, op, misread, comVars, srv, obj, gcOthers>>

\* lines 546-555: enumerator->Next(WBEM_INFINITE, 1, &pClass, &uReturn); leave
\* the loop and return when nothing was returned
GC_Next ==
    /\ pc = "gc_Next"
    /\ \E n \in IF gc.invalid THEN {[hr |-> "WBEM_E_INVALID_QUERY", returned |-> 0]}
                ELSE EnumNextOutcomes(gc.left, WBEM_INFINITE) :
        /\ OpCall("Next")
        /\ badhr' = (badhr \/ n.hr # S_OK)
        /\ IF n.returned = 0
              THEN OpEnd("return", gc.ret)
              ELSE pc' = "gc_Get" /\ UNCHANGED <<outcome, result>>
    /\ UNCHANGED <<cpc, op, misread, comVars, srv, obj, gc, gcOthers>>

\* lines 559-564: pClass->Get(L"__CLASS"); insert the name when it SUCCEEDED
GC_Get ==
    /\ pc = "gc_Get"
    /\ \E hr \in HRCall :
        /\ OpCall("Get:__CLASS")
        /\ badhr' = (badhr \/ hr # S_OK)
        /\ gc' = [gc EXCEPT !.left = Tail(@),
                            !.ret = IF SUCCEEDED(hr) THEN @ \cup {Head(gc.left)} ELSE @]
    /\ pc' = "gc_Next"
    /\ UNCHANGED <<cpc, op, outcome, result, misread, comVars, srv, obj, gcOthers>>

GetClassNames == GC_ExecQuery \/ GC_Next \/ GC_Get

(***************************************************************************)
(* The test harness: one caller that constructs and uses the wrapper       *)
(* classes the way README.md and nv2::wmi::test() do, with any arguments.  *)
(***************************************************************************)
\* the Objects the harness calls on: instances, an Object without an
\* IWbemClassObject, one without services
HarnessObjects ==
    {Object(DiskG, "svc"), Object(NullObj, "svc"), Object(DiskG, NULL)}
PropertyArgs(o) == {o.props[i].name : i \in 1..Len(o.props)} \cup {"__CLASS", "NoSuchProperty"}

\* the caller takes the outcome of the operation it called: control comes
\* back (a return or a C++ exception), or the process has died
H_Return ==
    /\ cpc = "h_call" /\ pc = "done"
    /\ pc' = "idle"
    /\ cpc' = IF outcome \in {"return", "throw"} THEN "h_exit" ELSE "h_dead"
    /\ UNCHANGED <<op, outcome, result, badhr, calls, misread, comVars, srv, obj, locVars>>

\* a client of the wrapper: a ComInit, a Services, one call of one operation
\* with any arguments, then the two destructors
H_GetValue ==
    /\ cpc = "h_use"
    /\ \E o \in Instances \cup {NullObj} : \E property \in PropertyArgs(o) :
            Object_GetValue("h_use", "h_call", Object(o, srv.m_pService), property)
H_GetIValue ==
    /\ cpc = "h_use"
    /\ \E o \in Instances \cup {NullObj} : \E property \in PropertyArgs(o) :
            Object_GetIValue("h_use", "h_call", Object(o, srv.m_pService), property)
H_GetProperties ==
    /\ cpc = "h_use"
    /\ \E o \in Instances \cup {NullObj} : GP_Call("h_use", "h_call", Object(o, srv.m_pService))
H_GetMethods ==
    /\ cpc = "h_use"
    /\ \E o \in HarnessObjects : GM_Call("h_use", "h_call", o)
H_GetClassNames ==
    /\ cpc = "h_use"
    /\ \E filter \in Filters : GC_Call("h_use", "h_call", filter)
H_ExecMethod ==
    /\ cpc = "h_use"
    /\ \E o \in HarnessObjects, method \in MethodNames \cup {"NoSuchMethod"},
          iparams \in ParamLists, oparams \in {{}, {Prop("Status", VtBstr("stale"))}} :
            EM_Call("h_use", "h_call", o, method, iparams, oparams)

Harness ==
    \/ ComInit_ctor("start", "h_Services", "h_done")
    \/ Services_ctor("h_Services", "h_use", "h_unwind", "h_dead")
    \/ H_GetValue \/ H_GetIValue
    \/ Services_GetObject("h_use", "h_call", Instances)
    \/ GI_Call("h_use", "h_call")
    \/ H_GetProperties \/ H_GetMethods \/ H_GetClassNames \/ H_ExecMethod
    \/ H_Return
    \/ Services_dtor("h_exit", "h_unwind")
    \/ ComInit_dtor("h_unwind", "h_done")

(***************************************************************************)
(* _tmain (main.cpp:55-205), the command-line driver.  mn holds its        *)
(* locals; exited is "returned" once it has returned `code`, "died" when   *)
(* the process ended without returning from it.                            *)
(***************************************************************************)
\* the -tn arguments tried, and the class definition GetObject delivers
TargetNames == {<<>>, <<"a">>, <<"a", "%">>}
ClassDefs == {DiskG}

\* std::set<std::wstring> iterates in increasing order
LetterRank(t) == IF t = "a" THEN 1 ELSE 2
RECURSIVE Less(_, _)
Less(x, y) ==
    IF x = <<>> THEN y # <<>>
    ELSE IF y = <<>> THEN FALSE
    ELSE IF Head(x) = Head(y) THEN Less(Tail(x), Tail(y))
    ELSE LetterRank(Head(x)) < LetterRank(Head(y))
RECURSIVE Ordered(_)
Ordered(S) ==
    IF S = {} THEN <<>>
    ELSE LET m == CHOOSE x \in S : \A y \in S \ {x} : Less(x, y)
         IN  <<m>> \o Ordered(S \ {m})

\* a step of _tmain between two wrapper calls
M_Goto(from, cond, to, locals) ==
    /\ cpc = from /\ pc = "idle" /\ cond
    /\ cpc' = to
    /\ mn' = locals
    /\ UNCHANGED <<opVars, comVars, srv, obj, mnOthers>>
\* the frame of a wrapper call is gone once the call has been left
FrameGone ==
    /\ result' = NULL /\ badhr' = FALSE /\ calls' = <<>> /\ misread' = FALSE
    /\ obj' = NoObject
    /\ em' = EmIdle /\ gi' = GiIdle /\ gc' = GcIdle /\ gp' = GpIdle /\ en' = EnIdle
    /\ gm' = GmIdle /\ sa' = <<>>
\* _tmain takes the value a wrapper call returned
M_Got(from, to, locals) ==
    /\ cpc = from /\ pc = "done" /\ outcome = "return"
    /\ pc' = "idle"
    /\ cpc' = to
    /\ mn' = locals
    /\ FrameGone
    /\ UNCHANGED <<op, outcome, comVars, srv>>

\* lines 64-65: throw_if(!IsProcessElevated(), ...)
M_IsProcessElevated ==
    /\ cpc = "start" /\ pc = "idle"
    /\ \E elevated \in BOOLEAN :
        /\ mn' = [mn EXCEPT !.elevated = elevated]
        /\ outcome' = IF elevated THEN "return" ELSE "throw"
        /\ cpc' = IF elevated THEN "m_parse" ELSE "m_leave"
    /\ op' = "IsProcessElevated" /\ result' = NULL
    /\ badhr' = FALSE /\ calls' = <<>> /\ misread' = FALSE
    /\ UNCHANGED <<pc, comVars, srv, obj, mnOthers>>

\* lines 68-100: the options, nv2::ap::parse (which may reject the command line
\* by throwing), help: print and return 0; a non-empty -tn selects the
\* enumeration test
M_Parse ==
    /\ cpc = "m_parse" /\ pc = "idle"
    /\ op' = "parse" /\ result' = NULL
    /\ \/ /\ outcome' = "throw" /\ cpc' = "m_leave" /\ UNCHANGED mn
       \/ /\ outcome' = "return"
          /\ \E help, te, tp, tm, lp, lm \in BOOLEAN, targetName \in TargetNames :
                IF help
                    THEN /\ mn' = [mn EXCEPT !.parsed = TRUE, !.help = TRUE,
                                             !.exited = "returned", !.code = 0]
                         /\ cpc' = "m_done"
                    ELSE /\ mn' = [mn EXCEPT !.parsed = TRUE,
                                             !.test_enumeration = te \/ targetName # <<>>,
                                             !.test_properties = tp, !.test_methods = tm,
                                             !.list_properties = lp, !.list_methods = lm,
                                             !.targetName = targetName]
                         /\ cpc' = "m_ComInit"
    /\ UNCHANGED <<pc, badhr, calls, misread, comVars, srv, obj, mnOthers>>

\* lines 106-139: test_enumeration
M_GetClassNames == mn.test_enumeration /\ GC_Call("m_te", "m_te_names", mn.targetName)
M_NoEnumeration == M_Goto("m_te", ~mn.test_enumeration, "m_tp", mn)
M_ClassNames ==
    M_Got("m_te_names", "m_te_loop", [mn EXCEPT !.classNames = Ordered(result), !.k = 1])
M_GetObject ==
    /\ mn.k <= Len(mn.classNames)
    /\ Services_GetObject("m_te_loop", "m_te_obj", ClassDefs)
M_Obj == M_Got("m_te_obj", "m_te_lp", [mn EXCEPT !.obj = result])
M_ListProperties == mn.list_properties /\ GP_Call("m_te_lp", "m_te_props", mn.obj)
M_NoListProperties == M_Goto("m_te_lp", ~mn.list_properties, "m_te_lm", mn)
M_Listed == M_Got("m_te_props", "m_te_lm", mn)
M_ListMethods == mn.list_methods /\ GM_Call("m_te_lm", "m_te_methods", mn.obj)
M_NoListMethods ==
    M_Goto("m_te_lm", ~mn.list_methods, "m_te_loop", [mn EXCEPT !.k = @ + 1, !.obj = NoObject])
M_Methods == M_Got("m_te_methods", "m_te_loop", [mn EXCEPT !.k = @ + 1, !.obj = NoObject])
M_EnumerationDone ==
    M_Goto("m_te_loop", mn.k > Len(mn.classNames), "m_tp",
           [mn EXCEPT !.classNames = <<>>, !.k = 1])

\* lines 141-159: test_properties
M_PropertyInstances == mn.test_properties /\ GI_Call("m_tp", "m_tp_disks")
M_NoProperties == M_Goto("m_tp", ~mn.test_properties, "m_tm", mn)
M_PropertyDisks == M_Got("m_tp_disks", "m_tp_loop", [mn EXCEPT !.disks = result, !.d = 1])
M_GetProperties ==
    /\ mn.d <= Len(mn.disks)
    /\ GP_Call("m_tp_loop", "m_tp_props", mn.disks[mn.d])
M_Props == M_Got("m_tp_props", "m_tp_prop", [mn EXCEPT !.props = result, !.p = 1])
M_GetValue ==
    /\ mn.p <= Len(mn.props)
    /\ Object_GetValue("m_tp_prop", "m_tp_value", mn.disks[mn.d], mn.props[mn.p])
M_Value == M_Got("m_tp_value", "m_tp_prop", [mn EXCEPT !.p = @ + 1])
M_NextDisk ==
    M_Goto("m_tp_prop", mn.p > Len(mn.props), "m_tp_loop",
           [mn EXCEPT !.d = @ + 1, !.props = <<>>, !.p = 1])
M_PropertiesDone ==
    M_Goto("m_tp_loop", mn.d > Len(mn.disks), "m_tm", [mn EXCEPT !.disks = <<>>, !.d = 1])

\* lines 162-187: test_methods
M_MethodInstances == mn.test_methods /\ GI_Call("m_tm", "m_tm_disks")
M_NoMethods == M_Goto("m_tm", ~mn.test_methods, "m_ret", mn)
M_MethodDisks == M_Got("m_tm_disks", "m_tm_loop", [mn EXCEPT !.disks = result, !.d = 1])
M_DeviceID ==
    /\ mn.d <= Len(mn.disks)
    /\ Object_GetValue("m_tm_loop", "m_tm_id", mn.disks[mn.d], "DeviceID")
M_IsG ==
    M_Got("m_tm_id", IF result = "G:" THEN "m_tm_exec" ELSE "m_tm_loop",
          [mn EXCEPT !.d = IF result = "G:" THEN @ ELSE @ + 1])
M_Chkdsk ==
    EM_Call("m_tm_exec", "m_tm_result", mn.disks[mn.d], "chkdsk",
            <<"FixErrors", "OKToRunAtBootUp">>, {})
M_ChkdskResult == M_Got("m_tm_result", "m_tm_loop", [mn EXCEPT !.d = @ + 1])
M_MethodsDone ==
    M_Goto("m_tm_loop", mn.d > Len(mn.disks), "m_ret", [mn EXCEPT !.disks = <<>>, !.d = 1])

\* line 189: ret = 0, and the try block is left
M_Ret0 == M_Goto("m_ret", TRUE, "m_unwind", [mn EXCEPT !.ret = 0])

\* the positions where _tmain waits for a wrapper call of one of the tests
MainWaits ==
    {"m_te_names", "m_te_obj", "m_te_props", "m_te_methods", "m_tp_disks", "m_tp_props",
     "m_tp_value", "m_tm_disks", "m_tm_id", "m_tm_result"}
\* where control goes when a wrapper call did not return: a C++ exception
\* unwinds the try block; an access violation does the same where catch (...)
\* takes structured exceptions (/EHa) and ends the process where it does not;
\* std::terminate ends the process
RaiseTargets(how) ==
    IF how = "throw" THEN {"m_unwind"}
    ELSE IF how = "fault" THEN {"m_unwind", "m_dead"}
    ELSE {"m_dead"}
M_Raise ==
    /\ cpc \in MainWaits /\ pc = "done" /\ outcome # "return"
    /\ pc' = "idle"
    /\ \E to \in RaiseTargets(outcome) : cpc' = to
    /\ mn' = [mn EXCEPT !.testRaised = TRUE, !.classNames = <<>>, !.k = 1, !.obj = NoObject,
                        !.disks = <<>>, !.d = 1, !.props = <<>>, !.p = 1]
    /\ FrameGone
    /\ UNCHANGED <<op, outcome, comVars, srv>>

\* handlers that print and then return 0 whatever was caught
M_Return_Zero ==
    M_Goto("m_leave", TRUE, "m_done",
           [mn EXCEPT !.exited = "returned", !.code = 0, !.caught = (outcome # "return")])
\* lines 191-204: the handlers print, then return ret
M_Return ==
    M_Goto("m_leave", TRUE, "m_done",
           [mn EXCEPT !.exited = "returned", !.code = mn.ret, !.caught = (outcome # "return")])
M_Die == M_Goto("m_dead", TRUE, "m_done", [mn EXCEPT !.exited = "died"])

Main ==
    \/ M_IsProcessElevated \/ M_Parse
    \/ ComInit_ctor("m_ComInit", "m_Services", "m_leave")
    \/ Services_ctor("m_Services", "m_te", "m_unwind_ci", "m_dead")
    \/ M_GetClassNames \/ M_NoEnumeration \/ M_ClassNames \/ M_GetObject \/ M_Obj
    \/ M_ListProperties \/ M_NoListProperties \/ M_Listed
    \/ M_ListMethods \/ M_NoListMethods \/ M_Methods \/ M_EnumerationDone
    \/ M_PropertyInstances \/ M_NoProperties \/ M_PropertyDisks \/ M_GetProperties
    \/ M_Props \/ M_GetValue \/ M_Value \/ M_NextDisk \/ M_PropertiesDone
    \/ M_MethodInstances \/ M_NoMethods \/ M_MethodDisks \/ M_DeviceID \/ M_IsG
    \/ M_Chkdsk \/ M_ChkdskResult \/ M_MethodsDone
    \/ M_Ret0 \/ M_Raise
    \/ Services_dtor("m_unwind", "m_unwind_ci")
    \/ ComInit_dtor("m_unwind_ci", "m_leave")
    \/ M_Return \/ M_Die

\* the wrapper under every use a client can make of it
Next ==
    \/ Harness \/ ExecMethod \/ GetInstances \/ EnumNames \/ GetProperties
    \/ GetMethods \/ GetClassNames

\* the wrapper as the command-line driver uses it
MainNext ==
    \/ Main \/ ExecMethod \/ GetInstances \/ EnumNames \/ GetProperties
    \/ GetMethods \/ GetClassNames

Spec == Init /\ [][Next]_vars
MainSpec == Init /\ [][MainNext]_vars


(***************************************************************************)
(* Properties.                                                             *)
(***************************************************************************)
IsPrefix(a, b) == Len(a) <= Len(b) /\ SubSeq(b, 1, Len(a)) = a
Count(c, cs) == Cardinality({k \in 1..Len(cs) : cs[k] = c})
ValidObject == obj.m_pServices # NULL /\ ~IsNull(obj.m_pObj)

\* C1, for Object::ExecMethod: whenever a platform call made by the operation
\* returned a result other than S_OK, the operation does not return normally
\* (it ends by throwing).
C1_NonOkBecomesException ==
    (op = "ExecMethod" /\ pc = "done" /\ badhr) => outcome # "return"

\* the platform calls ExecMethod makes up to and including IWbemServices::ExecMethod
ExpectedCalls(iparams) ==
    <<"Get:__CLASS", "GetObject", "GetMethod", "SpawnInstance">>
        \o [k \in 1..Len(iparams) |-> "Put:" \o iparams[k]]
        \o <<"Get:__RELPATH", "ExecMethod">>
OutReads == {"Get:ReturnValue", "BeginEnumeration", "Next", "EndEnumeration"}

\* C2: ExecMethod's platform calls follow one fixed order: the class definition,
\* the method's in-parameter class, one SpawnInstance, one Put per pair of
\* iparams in list order, then exactly one IWbemServices::ExecMethod call, made
\* with the spawned instance and the object's __RELPATH; the out-parameter
\* object is read only after that call; a normal return has made the call.
C2_ExecMethodOrder ==
    op = "ExecMethod" =>
        LET e == ExpectedCalls(em.iparams)
        IN  /\ IsPrefix(calls, e) \/ IsPrefix(e, calls)
            /\ \A k \in 1..Len(calls) :
                /\ calls[k] = "ExecMethod" => k = Len(e)
                /\ calls[k] \in OutReads => k > Len(e)
            /\ IsPrefix(e, calls) =>
                /\ em.sent = em.pInParamsInstance
                /\ em.relPath = obj.m_pObj.relpath
                /\ \A k \in 1..Len(em.sent.puts) : em.sent.puts[k] \in ParamNames
            /\ outcome = "return" => IsPrefix(e, calls)

\* C2's case: a call with two pairs has returned after draining an out-object
C2_Witness ==
    /\ op = "ExecMethod" /\ outcome = "return" /\ Len(em.iparams) = 2
    /\ em.iparams[1] # em.iparams[2]
    /\ em.sent.puts = em.iparams
    /\ ~em.pOutParamsInstance.null /\ Count("Next", calls) >= 2

\* C3: when the method call yielded an out-parameter object, ExecMethod returns
\* the value of its "ReturnValue" property and, on return, oparams maps every
\* other non-system property of that object to its value; the drain never adds
\* the key "ReturnValue"; the drain loop makes at most one Next call per
\* property and one more, so it ends.
C3_OutParamsDrained ==
    (op = "ExecMethod" /\ outcome = "return" /\ ~em.pOutParamsInstance.null) =>
        LET out == em.pOutParamsInstance
        IN  /\ HasProp(out, "ReturnValue") => result = PropValue(out, "ReturnValue")
            /\ \A k \in 1..Len(out.props) :
                out.props[k].name # "ReturnValue" => out.props[k] \in em.oparams
            /\ "ReturnValue" \notin MapKeys(em.oparams) \ MapKeys(em.oparams0)
            /\ Count("Next", calls) <= Len(out.props) + 1

\* C4, where no platform call fails: for a valid object and a method of its
\* class, also one that declares no input parameters and is called with an
\* empty iparams, ExecMethod reaches the IWbemServices::ExecMethod call and
\* returns, and never goes through a null in-parameter class or instance.
C4_AnyArity ==
    (/\ op = "ExecMethod" /\ pc = "done" /\ ValidObject /\ ~badhr
     /\ em.method \in MethodNames
     /\ \A k \in 1..Len(em.iparams) :
            \E j \in 1..Len(InSignature(em.method)) : InSignature(em.method)[j] = em.iparams[k])
        => (outcome = "return" /\ Count("ExecMethod", calls) = 1)

\* C5: GetInstances returns all instances: one Object per instance the
\* enumerator has to deliver, in enumeration order, each bound to the Services'
\* IWbemServices pointer.
C5_AllInstances ==
    (op = "GetInstances" /\ outcome = "return") =>
        result = [k \in 1..Len(gi.all) |-> Object(gi.all[k], srv.m_pService)]

\* C7: every SAFEARRAY that GetNames handed to EnumNames or to GetProperties is
\* destroyed with SafeArrayDestroy exactly once on every exit path of the
\* function that obtained it, return or exception: never twice, and once by the
\* time that function has been left.
C7_SafeArrayDestroyedOnce ==
    /\ \A k \in 1..Len(sa) :
        /\ sa[k].destroys <= 1
        /\ sa[k].exited => sa[k].destroys = 1
    /\ (op = "GetProperties" /\ pc = "done" /\ outcome \in {"return", "throw"}) =>
            \A k \in 1..Len(sa) : sa[k].exited /\ sa[k].destroys = 1

\* C7's case: GetProperties was left by an exception that EnumNames threw with
\* both arrays allocated
C7_Witness ==
    /\ op = "GetProperties" /\ pc = "done" /\ outcome = "throw"
    /\ Len(sa) = 2 /\ sa[1].by = "GetProperties" /\ sa[2].by = "EnumNames"
    /\ Count("SafeArrayGetElement", calls) = 2

\* C8: GetClassNames issues "SELECT * FROM meta_class", restricted for a
\* non-empty filter by " where __CLASS LIKE '<filter>'", and every name it
\* returns is the __CLASS of a class of the namespace that matches the filter,
\* for every filter string.
C8_OnlyMatchingClasses ==
    (op = "GetClassNames" /\ outcome = "return") =>
        /\ gc.query = BuildQuery(gc.filter)
        /\ \A name \in result :
            /\ \E k \in 1..Len(NamespaceClasses) : NamespaceClasses[k] = name
            /\ gc.filter # <<>> => Like(gc.filter, name)

\* C6: for a valid Object and a property name that GetProperties returns for
\* it, when Get succeeds GetValue returns a string and has read bstrVal only
\* of a variant that holds a string.
C6_StringPayloadOnly ==
    (/\ op = "GetValue" /\ pc = "done" /\ ValidObject /\ ~badhr
     /\ \E k \in 1..Len(obj.m_pObj.props) : calls = <<"Get:" \o obj.m_pObj.props[k].name>>)
        => (outcome = "return" /\ ~misread)

\* C9: once a ComInit is gone (its constructor threw, or it was destroyed),
\* every CoInitializeEx call that succeeded, S_FALSE included, has been
\* balanced by one CoUninitialize.
C9_InitBalanced ==
    ci.state \in {"ctor_threw", "destroyed"} => coUninits = coInits

Raised == outcome \in {"throw", "fault", "terminate"}
Exits(code) == mn.exited = "returned" /\ mn.code = code

\* C10, as the driver behaves: not elevated, it throws before parsing and
\* before any COM initialisation or WMI call and exits -1; elevated with help
\* requested it exits 0 without initialising COM; otherwise it exits 0 if and
\* only if no exception was raised at all, by option parsing, by the
\* construction of ComInit or Services, or by a selected test; it exits -1
\* whenever an exception is caught.
C10_ExitCode ==
    mn.exited # "no" =>
        /\ ~mn.elevated =>
            /\ Exits(-1) /\ ~mn.parsed /\ op = "IsProcessElevated"
            /\ coInits = 0 /\ ci.state = "none" /\ srv.state = "none"
        /\ mn.help => Exits(0) /\ coInits = 0 /\ ci.state = "none" /\ srv.state = "none"
        /\ (mn.elevated /\ ~mn.help) => (Exits(0) <=> ~Raised)
        /\ mn.caught => Exits(-1)
        /\ (Raised /\ mn.exited = "returned") => mn.caught

\* C10's case: the method test ran chkdsk, the call threw, the handler caught
\* the exception and the driver returned -1
C10_Witness ==
    /\ Exits(-1) /\ mn.caught /\ mn.testRaised /\ mn.test_methods
    /\ op = "ExecMethod" /\ outcome = "throw"
    /\ ci.state = "destroyed" /\ coUninits = 1

\* C10 as stated: with the options parsed and no help requested, the driver
\* exits 0 if and only if no selected test raised an exception.
C10_OnlyTestsDecide ==
    (mn.exited # "no" /\ mn.elevated /\ mn.parsed /\ ~mn.help) => (Exits(0) <=> ~mn.testRaised)

\* the property a finished GetValue asked Get for
Asked(property) == calls = <<"Get:" \o property>>

\* C11: GetValue renders the variant Get delivered by its type: VT_NULL as
\* "NULL", VT_BOOL as "true" when the boolean is true and "false" when it is
\* false, VT_BSTR/VT_LPWSTR unchanged, any other type as its conversion to a
\* string; on an Object without an IWbemClassObject it throws E_POINTER and
\* does not call Get.
C11_RenderedByType ==
    (op = "GetValue" /\ pc = "done") =>
        /\ IsNull(obj.m_pObj) => (outcome = "throw" /\ result = "E_POINTER" /\ calls = <<>>)
        /\ \A property \in PropertyArgs(obj.m_pObj) :
            (~IsNull(obj.m_pObj) /\ Asked(property) /\ ~badhr) =>
                LET val == PropValue(obj.m_pObj, property)
                    str == ChangeTypeBSTR(val)
                IN  /\ outcome = "return"
                    /\ val.vt = "VT_NULL" => result = "NULL"
                    /\ (val.vt = "VT_BOOL" /\ val.ival = VARIANT_TRUE) => result = "true"
                    /\ (val.vt = "VT_BOOL" /\ val.ival = VARIANT_FALSE) => result = "false"
                    /\ val.vt \in {"VT_BSTR", "VT_LPWSTR"} => result = val.sval
                    /\ val.vt \notin {"VT_NULL", "VT_BOOL", "VT_BSTR", "VT_LPWSTR"} =>
                            (str.hr = S_OK /\ result = str.var.sval)

\* the MethodDef GetMethods is to build for a method of the class
MethodDefOf(name) ==
    [name |-> name, ipParams |-> PropNames(InSignatureObject(name)),
     opParams |-> PropNames(OutSignatureObject(name))]
\* the methods NextMethod has delivered, in enumeration order
Enumerated == SubSeq(gm.all, 1, Len(gm.all) - Len(gm.left))
\* BeginMethodEnumeration has succeeded in this call of GetMethods
Began == gm.open \/ gm.ends > 0

\* C12: when control leaves GetMethods, by return or by exception: a returned
\* list holds one MethodDef per method enumerated, in enumeration order, with
\* its name and the property names of its in- and out-signature (empty for an
\* absent signature); the loop stopped at the first NextMethod call that
\* failed or yielded no name; and a successful BeginMethodEnumeration has
\* been followed by exactly one EndMethodEnumeration, also when EnumNames
\* threw inside the loop.
C12_MethodDefsThenEnd ==
    (op = "GetMethods" /\ pc = "done" /\ outcome \in {"return", "throw"}) =>
        /\ outcome = "return" =>
                result = [k \in 1..Len(Enumerated) |-> MethodDefOf(Enumerated[k])]
        /\ (outcome = "return" /\ Began) => Count("NextMethod", calls) = Len(result) + 1
        /\ Began => (Count("EndMethodEnumeration", calls) = 1 /\ ~gm.open)
        /\ ~Began => Count("EndMethodEnumeration", calls) = 0

\* COM interface pointers the driver holds: the IWbemServices of srv and the
\* IWbemLocator its constructor obtained, the
\* Objects in its locals (obj, disks) and in a value not yet taken, and the
\* enumerators, class definitions and parameter objects in the frame of a
\* wrapper call
HeldByServices == srv.m_pService # NULL \/ srv.pLocator # NULL
HeldByObjects == mn.obj # NoObject \/ mn.disks # <<>> \/ obj # NoObject \/ result # NULL
HeldByFrame ==
    gi # GiIdle \/ gc # GcIdle \/ gm # GmIdle \/ em # EmIdle \/ en # EnIdle \/ pc # "idle"
Held == HeldByServices \/ HeldByObjects \/ HeldByFrame
\* this step makes a COM or WMI call other than CoInitializeEx
WmiCall == calls' # calls /\ calls' # <<>> /\ op' # "ComInit"
\* CoInitializeEx has succeeded for ci and CoUninitialize has not been called
InApartment == ci.state = "alive" /\ ci.ok /\ coInits = 1 /\ coUninits = 0

\* C13: in the driver, CoUninitialize is called only when no COM interface
\* pointer is held by srv, by an Object or by the frame of a wrapper call, on
\* the normal path and on every exception path alike; none is held afterwards;
\* and every COM or WMI call is made after CoInitializeEx has succeeded and
\* before CoUninitialize.
C13_LifetimesNest ==
    /\ [](coUninits > 0 => ~Held)
    /\ [][/\ coUninits' # coUninits => (~Held /\ srv.state \in {"destroyed", "ctor_threw"})
          /\ WmiCall => InApartment]_vars

=============================================================================
